---- MODULE Spec2Model ----
(***************************************************************************)
(* Model of the ai-chat-dev server: the in-memory Domain Store             *)
(* (server/storage.ts), the Chat Orchestrator (POST /api/messages) with    *)
(* the Completion Client (generateResponse), and the Broadcast Hub         *)
(* (the WebSocketServer's client set and the two places that publish).     *)
(*                                                                         *)
(* Every `await` of a handler is a suspension point: a handler is a        *)
(* process whose pc names the await it is parked on, and other handlers    *)
(* and socket callbacks run between its steps.                             *)
(***************************************************************************)
EXTENDS Integers, Sequences, FiniteSets, TLC

\* ------------------------------------------------------------- bounds
MaxProviderId == 1
MaxModelId == 1
MaxChatId == 1
MaxUpdates == 2
MaxKeyLen == 9
MaxClock == 2
MaxPromptId == 2

\* ------------------------------------------------------------- inputs
Users == {1, 2}
Conns == {"ws1", "ws2"}
NoConn == "none"
Roles == {"user", "assistant"}
Contents == {"Hi"}
\* what the provider puts in choices[0].message.content
Replies == {"Hello", ""}
\* the send-message requests; each specification says which of them arrive
Reqs == {1, 2}

username(u) == IF u = 1 THEN "ss" ELSE "tt"

\* ------------------------------------------------------------- state
VARIABLES
  providers,   \* MemStorage.providers : id -> AIProvider
  models,      \* MemStorage.models    : id -> AIModel
  chats,       \* MemStorage.chats     : id -> Chat
  messages,    \* MemStorage.messages  : id -> Message
  logs,        \* the interaction log, in append order
  currentIds,  \* MemStorage.currentIds
  req,         \* one record per POST /api/messages request: pc and locals
  clients,     \* wss.clients
  readyState,  \* readyState of each socket
  inbox,       \* what each socket's peer has been sent, in order
  published,   \* history: every publish, in call order
  nextEdit,    \* history: number of document_update frames received
  key,         \* the argument of extractApiKey
  masked,      \* what the call of extractApiKey(key) ended with
  res,         \* what the latest CRUD request was answered with
  now,         \* the clock that new Date() reads
  openai,      \* which openai.ts the server is built from
  completed,   \* what the latest direct call of generateResponse ended with
  view,        \* a ChatInterface in a browser: its state and its query
  prompts,     \* MemStorage.prompts   : id -> Prompt
  process,     \* the server process: running, with a rejection pending, exited
  form         \* the provider settings form of a browser: its values

vars == <<providers, models, chats, messages, logs, currentIds, req,
          clients, readyState, inbox, published, nextEdit, key, masked, res, now,
          openai, completed, view, prompts, process, form>>

storeVars == <<providers, models, chats, messages, logs, currentIds>>
hubVars == <<clients, readyState, inbox, published, nextEdit>>
\* what the CRUD routes leave alone besides the store and the hub
sideVars == <<key, masked, now, openai, completed, view, prompts, process, form>>
\* what the send-message route and the socket callbacks leave alone
restVars == <<key, masked, res, now, openai, completed, view, prompts, process,
             form>>

\* ------------------------------------------------------------- Map helpers
\* the absent-value marker of Map.get
undefined == [id |-> 0]

MapGet(m, k) == IF k \in DOMAIN m THEN m[k] ELSE undefined

MapSet(m, k, v) == [x \in (DOMAIN m) \cup {k} |-> IF x = k THEN v ELSE m[x]]

MapDelete(m, k) == [x \in (DOMAIN m) \ {k} |-> m[x]]

EmptyMap == [x \in {} |-> undefined]

\* the null of a column without a value; the edits of a document are
\* numbered from 1
null == 0

\* ------------------------------------------------------------- strings
\* a string is the sequence of its characters
Chars == {"s", "k", "*"}

Strings(n) == UNION {[1 .. len -> Chars] : len \in 0 .. n}

Min(a, b) == IF a < b THEN a ELSE b

Max(a, b) == IF a > b THEN a ELSE b

\* String.prototype.slice(start, end): a negative index counts from the end,
\* both are clamped to the string
slice(str, start, end) ==
  LET len == Len(str)
      from == IF start < 0 THEN Max(len + start, 0) ELSE Min(start, len)
      to == IF end < 0 THEN Max(len + end, 0) ELSE Min(end, len)
  IN  SubSeq(str, from + 1, to)

\* String.prototype.repeat(count) of a one-character string, count >= 0
repeat(ch, count) == [i \in 1 .. count |-> ch]

\* a JSON value that is not a string (a number, null)
NotAString == <<"not a string">>

isString(value) == value # NotAString

\* how a call ended: with a value, or by throwing
Returned(value) == [called |-> TRUE, threw |-> FALSE, value |-> value]

Threw == [called |-> TRUE, threw |-> TRUE, value |-> <<>>]

NotCalled == [called |-> FALSE, threw |-> FALSE, value |-> <<>>]

\* the mask is three characters whatever the length of the key
extractApiKey_FixedMask(key_) ==
  Returned(slice(key_, 0, 4) \o repeat("*", 3) \o slice(key_, -4, Len(key_)))

\* extractApiKey(key); key.slice is not a function (TypeError) on a value
\* that is not a string, repeat throws a RangeError on a negative count
extractApiKey(key_) ==
  LET firstPart == slice(key_, 0, 4)
      lastPart == slice(key_, -4, Len(key_))
  IN  IF ~isString(key_) \/ Len(key_) - 8 < 0
      THEN Threw
      ELSE Returned(firstPart \o repeat("*", Len(key_) - 8) \o lastPart)

\* a call of extractApiKey on the drawn key
Mask ==
  /\ ~masked.called
  /\ masked' = extractApiKey(key)
  /\ UNCHANGED <<key, req, res, now, openai, completed, view, prompts, process, form>>
  /\ UNCHANGED storeVars
  /\ UNCHANGED hubVars

\* ------------------------------------------------------------- MemStorage
getProvider(id) == MapGet(providers, id)

getModel(id) == MapGet(models, id)

getChat(id) == MapGet(chats, id)

createProvider(provider) ==
  LET id == currentIds.provider
  IN  [id |-> id, userId |-> provider.userId, name |-> provider.name,
       baseUrl |-> provider.baseUrl, apiKey |-> provider.apiKey,
       isActive |-> TRUE]

createModel(model) ==
  LET id == currentIds.model
  IN  [id |-> id, name |-> model.name, providerId |-> model.providerId,
       modelId |-> model.modelId, isDefault |-> model.isDefault]

createChat(chat) ==
  LET id == currentIds.chat
  IN  [id |-> id, userId |-> chat.userId, name |-> chat.name,
       modelId |-> chat.modelId, isDocument |-> chat.isDocument,
       content |-> null]

\* the Message record createMessage stores and returns; `by` is a history
\* tag (the request whose handler made the call), not a field of the code
createMessage(message, r) ==
  LET id == currentIds.message
  IN  [id |-> id, chatId |-> message.chatId, role |-> message.role,
       content |-> message.content, createdAt |-> now, by |-> r]

\* the comparator with its operands exchanged
compare_Reversed(a, b) == b.createdAt - a.createdAt

\* (a, b) => a.createdAt.getTime() - b.createdAt.getTime()
compare(a, b) == a.createdAt - b.createdAt

\* one step of the stable sort: message goes behind the messages that do
\* not compare greater than it
insert(sorted, message) ==
  LET k == Cardinality({i \in 1 .. Len(sorted) :
                          \A j \in 1 .. i : compare(sorted[j], message) <= 0})
  IN  SubSeq(sorted, 1, k) \o <<message>> \o SubSeq(sorted, k + 1, Len(sorted))

RECURSIVE sort(_)
\* Array.prototype.sort with the comparator above (stable)
sort(list) ==
  IF list = <<>> THEN <<>>
  ELSE insert(sort(SubSeq(list, 1, Len(list) - 1)), list[Len(list)])

RECURSIVE inserted(_)
\* the ids of a set in the order they were handed out
inserted(ids) ==
  IF ids = {} THEN <<>>
  ELSE LET first == CHOOSE id \in ids : \A other \in ids : id <= other
       IN  <<first>> \o inserted(ids \ {first})

\* storage.getMessages(chatId)
getMessages(chatId) ==
  LET ids == inserted({id \in DOMAIN messages : messages[id].chatId = chatId})
  IN  sort([i \in 1 .. Len(ids) |-> messages[ids[i]]])

\* storage.createLog: appends the entry to the interaction log
createLog(entry) == Append(logs, entry)

\* ------------------------------------------------------------- request inputs
\* a request body: the fields it carries (present) and their values
TestKey == <<"1", "2", "3", "1", "2", "3", "1", "2", "3">>

ProviderInputs ==
  {[present |-> {"name", "baseUrl", "apiKey"}, name |-> "openrouter",
    baseUrl |-> "https://openrouter.ai/api/v1", apiKey |-> TestKey]}

ModelInputs ==
  {[present |-> {"name", "providerId", "modelId", "isDefault"},
    name |-> "olympiccoder", providerId |-> p, modelId |-> "olympiccoder",
    isDefault |-> TRUE] : p \in 1 .. MaxProviderId}

ChatInputs ==
  {[present |-> {"name", "modelId", "isDocument"}, name |-> "Test Chat",
    modelId |-> m, isDocument |-> FALSE] : m \in 1 .. MaxModelId}

MessageInputs ==
  {[chatId |-> c, role |-> ro, content |-> co] :
     c \in 1 .. MaxChatId, ro \in Roles, co \in Contents}

\* keys of the lengths around the 8 characters that extractApiKey keeps
LongKey == [i \in 1 .. MaxKeyLen |-> IF i % 2 = 1 THEN "s" ELSE "k"]

KeySamples == {SubSeq(LongKey, 1, len) : len \in MaxKeyLen - 2 .. MaxKeyLen}

\* bodies of POST and PATCH /api/providers: complete, with the key only,
\* empty, and with an apiKey that is not a text
ProviderBodies ==
  {[present |-> fields, name |-> "openrouter",
    baseUrl |-> "https://openrouter.ai/api/v1", apiKey |-> k] :
     fields \in {{"name", "baseUrl", "apiKey"}, {"apiKey"}},
     k \in KeySamples \cup {NotAString}}
  \cup {[present |-> {}, name |-> "", baseUrl |-> "", apiKey |-> <<>>]}

\* bodies of POST /api/models: complete, and without providerId and modelId
ModelBodies ==
  ModelInputs
  \cup {[present |-> {"name"}, name |-> "olympiccoder", providerId |-> 0,
          modelId |-> "", isDefault |-> FALSE]}

\* bodies of POST /api/chats: complete, and without modelId
ChatBodies ==
  ChatInputs
  \cup {[present |-> {"name"}, name |-> "Test Chat", modelId |-> 0,
          isDocument |-> FALSE]}

\* insertProviderSchema.parse succeeds: name, baseUrl and apiKey are texts
insertProviderSchema(body) ==
  {"name", "baseUrl", "apiKey"} \subseteq body.present /\ isString(body.apiKey)

\* the constraints on the body of an update, Partial<InsertProvider>: the
\* fields it carries are texts
partialProviderSchema(body) == "apiKey" \in body.present => isString(body.apiKey)

\* insertModelSchema.parse succeeds (isDefault has a default)
insertModelSchema(body) == {"name", "providerId", "modelId"} \subseteq body.present

\* insertChatSchema.parse succeeds (the other columns are nullable)
insertChatSchema(body) == {"name", "modelId"} \subseteq body.present

\* ------------------------------------------------------------- responses
\* no CRUD request yet
NoRequest == [route |-> "", status |-> 0, kind |-> "none", json |-> <<>>]

\* the handler threw before it answered: nothing is sent
NoResponse(route) == [route |-> route, status |-> 0, kind |-> "none", json |-> <<>>]

\* res.sendStatus(status)
sendStatus(route, status) ==
  [route |-> route, status |-> status, kind |-> "empty", json |-> <<>>]

\* res.status(status).json(value), value an object
jsonObject(route, status, value) ==
  [route |-> route, status |-> status, kind |-> "object", json |-> value]

\* res.status(status).json(value), value an array
jsonArray(route, status, value) ==
  [route |-> route, status |-> status, kind |-> "array", json |-> value]

\* { ...provider, apiKey: extractApiKey(provider.apiKey) }
masked_(provider) ==
  LET apiKey == extractApiKey(provider.apiKey)
  IN  IF apiKey.threw THEN Threw
      ELSE Returned([provider EXCEPT !.apiKey = apiKey.value])

\* ------------------------------------------------------------- CRUD routes
\* storage.getProviders(userId)
getProviders(userId) ==
  LET ids == inserted({id \in DOMAIN providers : providers[id].userId = userId})
  IN  [i \in 1 .. Len(ids) |-> providers[ids[i]]]

\* storage.updateProvider: { ...provider, ...update }, every field that the
\* update carries, id and userId included
updateProvider(provider, update) ==
  [provider EXCEPT
     !.id = IF "id" \in update.present THEN update.id ELSE @,
     !.userId = IF "userId" \in update.present THEN update.userId ELSE @,
     !.name = IF "name" \in update.present THEN update.name ELSE @,
     !.baseUrl = IF "baseUrl" \in update.present THEN update.baseUrl ELSE @,
     !.apiKey = IF "apiKey" \in update.present THEN update.apiKey ELSE @]

\* app.get("/api/providers")
GetProviders(u) ==
  /\ LET route == "GET /api/providers"
         list == getProviders(u)
         maskedProviders == [i \in 1 .. Len(list) |-> masked_(list[i])]
     IN  IF \E i \in 1 .. Len(list) : maskedProviders[i].threw
         THEN res' = NoResponse(route)
         ELSE res' = jsonArray(route, 200,
                       [i \in 1 .. Len(list) |-> maskedProviders[i].value])
  /\ UNCHANGED <<req>>
  /\ UNCHANGED storeVars
  /\ UNCHANGED hubVars
  /\ UNCHANGED sideVars

\* app.post("/api/providers")
PostProvider(u, data) ==
  /\ currentIds.provider <= MaxProviderId
  /\ LET route == "POST /api/providers"
     IN  IF ~insertProviderSchema(data)
         THEN /\ res' = NoResponse(route)
              /\ UNCHANGED <<providers, currentIds>>
         ELSE LET provider == createProvider(data @@ [userId |-> u])
                  shown == masked_(provider)
              IN  /\ providers' = MapSet(providers, provider.id, provider)
                  /\ currentIds' = [currentIds EXCEPT !.provider = @ + 1]
                  /\ res' = IF shown.threw THEN NoResponse(route)
                            ELSE jsonObject(route, 201, shown.value)
  /\ UNCHANGED <<models, chats, messages, logs, req>>
  /\ UNCHANGED hubVars
  /\ UNCHANGED sideVars

\* app.patch("/api/providers/:id")
PatchProvider(u, id, body) ==
  /\ LET route == "PATCH /api/providers/:id"
         provider == getProvider(id)
     IN  IF provider = undefined \/ provider.userId # u
         THEN /\ res' = sendStatus(route, 404)
              /\ UNCHANGED providers
         ELSE LET target == getProvider(provider.id)
                  updated == updateProvider(target, body)
                  shown == masked_(updated)
              IN  IF target = undefined
                  THEN \* storage.updateProvider throws "Provider not found"
                       /\ res' = NoResponse(route)
                       /\ UNCHANGED providers
                  ELSE /\ providers' = MapSet(providers, provider.id, updated)
                       /\ res' = IF shown.threw THEN NoResponse(route)
                                 ELSE jsonObject(route, 200, shown.value)
  /\ UNCHANGED <<models, chats, messages, logs, currentIds, req>>
  /\ UNCHANGED hubVars
  /\ UNCHANGED sideVars

\* app.delete("/api/providers/:id")
DeleteProvider(u, id) ==
  /\ LET route == "DELETE /api/providers/:id"
         provider == getProvider(id)
     IN  IF provider = undefined \/ provider.userId # u
         THEN /\ res' = sendStatus(route, 404)
              /\ UNCHANGED providers
         ELSE \* Map.delete of a key that is absent deletes nothing
              /\ providers' = MapDelete(providers, provider.id)
              /\ res' = sendStatus(route, 204)
  /\ UNCHANGED <<models, chats, messages, logs, currentIds, req>>
  /\ UNCHANGED hubVars
  /\ UNCHANGED sideVars

\* app.post("/api/models")
PostModel(u, data) ==
  /\ currentIds.model <= MaxModelId
  /\ LET route == "POST /api/models"
     IN  IF ~insertModelSchema(data)
         THEN /\ res' = NoResponse(route)
              /\ UNCHANGED <<models, currentIds>>
         ELSE LET provider == getProvider(data.providerId)
              IN  IF provider = undefined \/ provider.userId # u
                  THEN /\ res' = sendStatus(route, 404)
                       /\ UNCHANGED <<models, currentIds>>
                  ELSE LET model == createModel(data)
                       IN  /\ models' = MapSet(models, model.id, model)
                           /\ currentIds' = [currentIds EXCEPT !.model = @ + 1]
                           /\ res' = jsonObject(route, 201, model)
  /\ UNCHANGED <<providers, chats, messages, logs, req>>
  /\ UNCHANGED hubVars
  /\ UNCHANGED sideVars

\* app.delete("/api/models/:id")
DeleteModel(u, id) ==
  /\ LET route == "DELETE /api/models/:id"
         model == getModel(id)
     IN  IF model = undefined
         THEN /\ res' = sendStatus(route, 404)
              /\ UNCHANGED models
         ELSE LET provider == getProvider(model.providerId)
              IN  IF provider = undefined \/ provider.userId # u
                  THEN /\ res' = sendStatus(route, 404)
                       /\ UNCHANGED models
                  ELSE /\ models' = MapDelete(models, model.id)
                       /\ res' = sendStatus(route, 204)
  /\ UNCHANGED <<providers, chats, messages, logs, currentIds, req>>
  /\ UNCHANGED hubVars
  /\ UNCHANGED sideVars

\* app.post("/api/chats")
PostChat(u, data) ==
  /\ currentIds.chat <= MaxChatId
  /\ LET route == "POST /api/chats"
     IN  IF ~insertChatSchema(data)
         THEN /\ res' = NoResponse(route)
              /\ UNCHANGED <<chats, currentIds>>
         ELSE LET chat == createChat(data @@ [userId |-> u])
              IN  /\ chats' = MapSet(chats, chat.id, chat)
                  /\ currentIds' = [currentIds EXCEPT !.chat = @ + 1]
                  /\ res' = jsonObject(route, 201, chat)
  /\ UNCHANGED <<providers, models, messages, logs, req>>
  /\ UNCHANGED hubVars
  /\ UNCHANGED sideVars

\* ------------------------------------------------------------- prompt routes
getPrompt(id) == MapGet(prompts, id)

\* storage.getPrompts(userId): the user's own prompts and the shared ones
getPrompts(userId) ==
  LET ids == inserted({id \in DOMAIN prompts :
                         prompts[id].userId = userId \/ prompts[id].isShared})
  IN  [i \in 1 .. Len(ids) |-> prompts[ids[i]]]

\* storage.createPrompt: isShared: prompt.isShared ?? false
createPrompt(prompt) ==
  LET id == currentIds.prompt
  IN  [id |-> id, userId |-> prompt.userId, name |-> prompt.name,
       content |-> prompt.content,
       isShared |-> IF "isShared" \in prompt.present THEN prompt.isShared
                    ELSE FALSE]

\* storage.updatePrompt: { ...prompt, ...update }, every field that the
\* update carries, id and userId included
updatePrompt(prompt, update) ==
  [prompt EXCEPT
     !.id = IF "id" \in update.present THEN update.id ELSE @,
     !.userId = IF "userId" \in update.present THEN update.userId ELSE @,
     !.content = IF "content" \in update.present THEN update.content ELSE @,
     !.isShared = IF "isShared" \in update.present THEN update.isShared ELSE @]

\* bodies of POST /api/prompts: private by default, shared or not, and
\* without content
PromptBodies ==
  {[present |-> {"name", "content"}, name |-> "brief", content |-> "be brief",
    isShared |-> FALSE]}
  \cup {[present |-> {"name", "content", "isShared"}, name |-> "brief",
          content |-> "be brief", isShared |-> shared] : shared \in BOOLEAN}
  \cup {[present |-> {"name"}, name |-> "brief", content |-> "",
          isShared |-> FALSE]}

\* bodies of PATCH /api/prompts/:id: the route hands req.body to the store as
\* it arrived, so a body carries any field, each alone here
PromptPatches ==
  {[present |-> {"content"}, content |-> "be long", isShared |-> FALSE,
    id |-> 0, userId |-> 0]}
  \cup {[present |-> {"isShared"}, content |-> "", isShared |-> shared,
          id |-> 0, userId |-> 0] : shared \in BOOLEAN}
  \cup {[present |-> {"id"}, content |-> "", isShared |-> FALSE, id |-> id,
          userId |-> 0] : id \in 1 .. MaxPromptId}
  \cup {[present |-> {"userId"}, content |-> "", isShared |-> FALSE, id |-> 0,
          userId |-> u] : u \in Users}

\* bodies of PATCH /api/providers/:id that carry one field, any field
ProviderPatches ==
  {[present |-> {"name"}, name |-> "renamed", id |-> 0, userId |-> 0]}
  \cup {[present |-> {"id"}, name |-> "", id |-> id, userId |-> 0] :
          id \in 1 .. MaxProviderId + 1}
  \cup {[present |-> {"userId"}, name |-> "", id |-> 0, userId |-> u] :
          u \in Users}

\* insertPromptSchema.parse succeeds: name and content are required
insertPromptSchema(body) == {"name", "content"} \subseteq body.present

\* app.get("/api/prompts")
GetPrompts(u) ==
  /\ res' = jsonArray("GET /api/prompts", 200, getPrompts(u))
  /\ UNCHANGED <<prompts, req>>
  /\ UNCHANGED storeVars
  /\ UNCHANGED hubVars
  /\ UNCHANGED <<key, masked, now, openai, completed, view, process, form>>

\* app.post("/api/prompts")
PostPrompt(u, data) ==
  /\ currentIds.prompt <= MaxPromptId
  /\ LET route == "POST /api/prompts"
     IN  IF ~insertPromptSchema(data)
         THEN /\ res' = NoResponse(route)
              /\ UNCHANGED <<prompts, currentIds>>
         ELSE LET prompt == createPrompt(data @@ [userId |-> u])
              IN  /\ prompts' = MapSet(prompts, prompt.id, prompt)
                  /\ currentIds' = [currentIds EXCEPT !.prompt = @ + 1]
                  /\ res' = jsonObject(route, 201, prompt)
  /\ UNCHANGED <<providers, models, chats, messages, logs, req>>
  /\ UNCHANGED hubVars
  /\ UNCHANGED <<key, masked, now, openai, completed, view, process, form>>

\* app.patch("/api/prompts/:id")
PatchPrompt(u, id, body) ==
  /\ LET route == "PATCH /api/prompts/:id"
         prompt == getPrompt(id)
     IN  IF prompt = undefined \/ prompt.userId # u
         THEN /\ res' = sendStatus(route, 404)
              /\ UNCHANGED prompts
         ELSE LET target == getPrompt(prompt.id)
                  updated == updatePrompt(target, body)
              IN  IF target = undefined
                  THEN \* storage.updatePrompt throws "Prompt not found"
                       /\ res' = NoResponse(route)
                       /\ UNCHANGED prompts
                  ELSE /\ prompts' = MapSet(prompts, prompt.id, updated)
                       /\ res' = jsonObject(route, 200, updated)
  /\ UNCHANGED req
  /\ UNCHANGED storeVars
  /\ UNCHANGED hubVars
  /\ UNCHANGED <<key, masked, now, openai, completed, view, process, form>>

\* app.delete("/api/prompts/:id")
DeletePrompt(u, id) ==
  /\ LET route == "DELETE /api/prompts/:id"
         prompt == getPrompt(id)
     IN  IF prompt = undefined \/ prompt.userId # u
         THEN /\ res' = sendStatus(route, 404)
              /\ UNCHANGED prompts
         ELSE /\ prompts' = MapDelete(prompts, prompt.id)
              /\ res' = sendStatus(route, 204)
  /\ UNCHANGED req
  /\ UNCHANGED storeVars
  /\ UNCHANGED hubVars
  /\ UNCHANGED <<key, masked, now, openai, completed, view, process, form>>

\* ------------------------------------------------------------- ProviderConfig
\* useState(null) and the defaultValues of useForm: no provider selected
NoForm ==
  [selectedProvider |-> undefined, name |-> "", baseUrl |-> "", apiKey |-> <<>>]

\* the Pencil button of a row of the table: the row is a provider of the
\* list GET /api/providers answered with; the form is reset to its values
EditClick(i) ==
  /\ res.route = "GET /api/providers" /\ res.status = 200
  /\ i \in 1 .. Len(res.json)
  /\ form' = [selectedProvider |-> res.json[i], name |-> res.json[i].name,
              baseUrl |-> res.json[i].baseUrl, apiKey |-> res.json[i].apiKey]
  /\ UNCHANGED <<req, res, key, masked, now, openai, completed, view, prompts,
                 process>>
  /\ UNCHANGED storeVars
  /\ UNCHANGED hubVars

\* the user types another name into the Name field of the open dialog
ChangeName(name) ==
  /\ form.selectedProvider # undefined
  /\ form' = [form EXCEPT !.name = name]
  /\ UNCHANGED <<req, res, key, masked, now, openai, completed, view, prompts,
                 process>>
  /\ UNCHANGED storeVars
  /\ UNCHANGED hubVars

\* form.handleSubmit with a provider selected: updateProviderMutation sends
\* the values of the form, and the server handles the PATCH
SubmitUpdate ==
  /\ form.selectedProvider # undefined
  /\ PatchProvider(form.selectedProvider.userId, form.selectedProvider.id,
                   [present |-> {"name", "baseUrl", "apiKey"},
                    name |-> form.name, baseUrl |-> form.baseUrl,
                    apiKey |-> form.apiKey])

\* onSuccess of updateProviderMutation: the dialog closes, the form resets
UpdateOnSuccess ==
  /\ form.selectedProvider # undefined
  /\ res.route = "PATCH /api/providers/:id" /\ res.status = 200
  /\ form' = NoForm
  /\ UNCHANGED <<req, res, key, masked, now, openai, completed, view, prompts,
                 process>>
  /\ UNCHANGED storeVars
  /\ UNCHANGED hubVars

\* ------------------------------------------------------------- logs route
\* storage.getLogs(): called without the user, it answers with the whole log
getLogs == logs

\* app.get("/api/logs")
GetLogs(u) ==
  /\ res' = jsonArray("GET /api/logs", 200, getLogs)
  /\ UNCHANGED req
  /\ UNCHANGED storeVars
  /\ UNCHANGED hubVars
  /\ UNCHANGED sideVars

\* ------------------------------------------------------------- Broadcast Hub
\* JSON text on the wire: the value it denotes and its formatting
\* (insignificant whitespace); JSON.parse throws on text that is not JSON
JSONparse(text) == text.json

JSONstringify(value) == [wellFormed |-> TRUE, json |-> value, ws |-> ""]

\* client.readyState === WebSocket.OPEN
isOpen(client) == readyState[client] = "OPEN"

\* the sender is not skipped
Recipients_NoExclude(exclude) == {client \in clients : isOpen(client)}

\* the readyState test is left out
Recipients_NoReadyCheck(exclude) == {client \in clients : client # exclude}

\* wss.clients.forEach with its guard: the sockets a publish sends to
Recipients(exclude) == {client \in clients : client # exclude /\ isOpen(client)}

\* the frame is put ahead of what was written before
send_Prepend(to, text) ==
  [client \in Conns |->
     IF client \in to THEN <<text>> \o inbox[client] ELSE inbox[client]]

\* client.send(text) for every recipient: the frame is written to the socket
\* within the call, behind what was written before
send(to, text) ==
  [client \in Conns |->
     IF client \in to THEN Append(inbox[client], text) ELSE inbox[client]]

\* the socket is never removed
Unregister_Leak(set, ws) == set

\* wss.clients.delete(ws), done when the socket closes
Unregister(set, ws) == set \ {ws}

\* history of a publish: the payload, the excluded socket, and which sockets
\* were in wss.clients and which of those were open when it was called
PublishRecord(value, exclude) ==
  [json |-> value, exclude |-> exclude, registered |-> clients,
   open |-> {client \in clients : readyState[client] = "OPEN"}]

\* inbound frames a peer may send
Frames ==
  {[wellFormed |-> TRUE,
    json |-> [type |-> t, chatId |-> c, edit |-> nextEdit + 1], ws |-> w] :
      t \in {"document_update", "cursor"}, c \in 1 .. MaxChatId,
      w \in {"", " "}}
  \cup {[wellFormed |-> FALSE,
         json |-> [type |-> "", chatId |-> 0, edit |-> 0], ws |-> ""]}

\* document_update frames about any chat, the peer's own or not
UpdateFrames ==
  {[wellFormed |-> TRUE,
    json |-> [type |-> "document_update", chatId |-> c, edit |-> nextEdit + 1],
    ws |-> ""] : c \in 1 .. MaxChatId + 1}

\* wss.on('connection'): the server has added the open socket to wss.clients
OnConnection(ws) ==
  /\ readyState[ws] = "CONNECTING"
  /\ readyState' = [readyState EXCEPT ![ws] = "OPEN"]
  /\ clients' = clients \cup {ws}
  /\ UNCHANGED <<inbox, published, nextEdit, req>>
  /\ UNCHANGED storeVars
  /\ UNCHANGED restVars

\* ws.on('message')
OnMessage(ws, data) ==
  /\ ws \in clients /\ isOpen(ws)
  /\ nextEdit < MaxUpdates
  /\ IF ~data.wellFormed
     THEN \* JSON.parse throws: the promise of the async handler rejects,
          \* and nothing handles it
          /\ process' = "rejection"
          /\ UNCHANGED <<inbox, published, nextEdit>>
     ELSE LET message == JSONparse(data)
          IN  IF message.type = "document_update"
              THEN /\ inbox' = send(Recipients(ws), JSONstringify(message))
                   /\ published' = Append(published, PublishRecord(message, ws))
                   /\ nextEdit' = nextEdit + 1
                   /\ UNCHANGED process
              ELSE UNCHANGED <<inbox, published, nextEdit, process>>
  /\ UNCHANGED <<clients, readyState, req>>
  /\ UNCHANGED storeVars
  /\ UNCHANGED <<key, masked, res, now, openai, completed, view, prompts, form>>

\* what the runtime does with the rejected promise of a socket callback: a
\* warning is printed and the server goes on, or (the default since Node 15)
\* the rejection is raised as an uncaught exception and the process exits,
\* which drops every connection
UnhandledRejection ==
  /\ process = "rejection"
  /\ \/ /\ process' = "running"
        /\ UNCHANGED <<clients, readyState>>
     \/ /\ process' = "exited"
        /\ clients' = {}
        /\ readyState' = [ws \in Conns |-> "CLOSED"]
  /\ UNCHANGED <<inbox, published, nextEdit, req>>
  /\ UNCHANGED storeVars
  /\ UNCHANGED <<key, masked, res, now, openai, completed, view, prompts, form>>

\* ws.on('error'): logged; the socket is on its way down (closing) and is
\* still in wss.clients until it closes
OnError(ws) ==
  /\ readyState[ws] = "OPEN"
  /\ readyState' = [readyState EXCEPT ![ws] = "CLOSING"]
  /\ UNCHANGED <<clients, inbox, published, nextEdit, req>>
  /\ UNCHANGED storeVars
  /\ UNCHANGED restVars

\* ws.on('close'): logged; the server drops the socket from wss.clients
OnClose(ws) ==
  /\ readyState[ws] \in {"OPEN", "CLOSING"}
  /\ readyState' = [readyState EXCEPT ![ws] = "CLOSED"]
  /\ clients' = Unregister(clients, ws)
  /\ UNCHANGED <<inbox, published, nextEdit, req>>
  /\ UNCHANGED storeVars
  /\ UNCHANGED restVars

\* ------------------------------------------------------------- Completion Client
\* outcomes of openai.chat.completions.create
Outcomes ==
  {[ok |-> TRUE, content |-> c] : c \in Replies}
  \cup {[ok |-> FALSE, content |-> "401 No auth credentials found"]}

\* response.choices[0].message.content || "No response generated"
completionText(content) ==
  IF content = "" THEN "No response generated" ELSE content

\* the versions of openai.ts: part_003:1-49 rethrows what it caught,
\* src/server/openai.ts (and part_003:50-86) returns an apology text
Versions == {"src/unnamed/part_003", "src/server/openai.ts"}

NotSettled ==
  [settled |-> "none", text |-> "", message |-> "", modelFound |-> FALSE,
   providerFound |-> FALSE, callOk |-> FALSE]

\* the promise resolves with a text
resolved(text) == [settled |-> "resolved", text |-> text, message |-> ""]

\* the promise rejects with an Error carrying a message
rejected(message) == [settled |-> "rejected", text |-> "", message |-> message]

\* the catch block of generateResponse
caught(version, message) ==
  IF version = "src/unnamed/part_003"
  THEN rejected(message)
  ELSE resolved("Sorry, I encountered an error processing your request.")

\* generateResponse(message, modelId), the outbound call ending as outcome
generateResponse(version, modelId, outcome) ==
  LET model == getModel(modelId)
  IN  IF model = undefined THEN caught(version, "Model not found")
      ELSE IF getProvider(model.providerId) = undefined
      THEN caught(version, "Provider not found")
      ELSE IF ~outcome.ok THEN caught(version, outcome.content)
      ELSE resolved(completionText(outcome.content))

\* a call of generateResponse; modelFound, providerFound and callOk are
\* history: what the call met
GenerateResponse(modelId, outcome) ==
  /\ LET model == getModel(modelId)
     IN  completed' =
           generateResponse(openai, modelId, outcome)
           @@ [modelFound |-> model # undefined,
               providerFound |-> /\ model # undefined
                                 /\ getProvider(model.providerId) # undefined,
               callOk |-> outcome.ok]
  /\ UNCHANGED <<req, key, masked, res, now, openai, view, prompts, process, form>>
  /\ UNCHANGED storeVars
  /\ UNCHANGED hubVars

\* ------------------------------------------------------------- ChatInterface
\* the view of user 1 in a second browser
\*   selectedChat: 0 is null;  socket: the WebSocket of the setup effect
\*   read: how many frames of the socket onmessage has handled
\*   stale: the messages query is invalidated or was never fetched
\*   messages: the data of the messages query
NoView ==
  [selectedChat |-> 0, socket |-> NoConn, read |-> 0, stale |-> FALSE,
   messages |-> <<>>]

\* the chatId test left out
concerns_AnyChat(data, selectedChat) == data.type = "document_update"

\* data.type === "document_update" && data.chatId === selectedChat
concerns(data, selectedChat) ==
  data.type = "document_update" /\ data.chatId = selectedChat

\* setSelectedChat(chat.id) on a chat of the list, and the setup effect:
\* new WebSocket(wsUrl)
SelectChat(chatId, ws) ==
  /\ view.selectedChat = 0
  /\ chatId \in DOMAIN chats /\ chats[chatId].userId = 1
  /\ readyState[ws] = "CONNECTING"
  /\ view' = [view EXCEPT !.selectedChat = chatId, !.socket = ws,
                          !.stale = TRUE]
  /\ UNCHANGED <<req, key, masked, res, now, openai, completed, prompts, process, form>>
  /\ UNCHANGED storeVars
  /\ UNCHANGED hubVars

\* socket.onmessage on the next frame the server sent
SocketOnMessage ==
  /\ view.socket # NoConn
  /\ view.read < Len(inbox[view.socket])
  /\ LET data == JSONparse(inbox[view.socket][view.read + 1])
     IN  view' = [view EXCEPT
                    !.read = @ + 1,
                    !.stale = @ \/ concerns(data, view.selectedChat)]
  /\ UNCHANGED <<req, key, masked, res, now, openai, completed, prompts, process, form>>
  /\ UNCHANGED storeVars
  /\ UNCHANGED hubVars

\* the messages query fetches GET /api/chats/:chatId/messages
FetchMessages ==
  /\ view.selectedChat # 0
  /\ view.stale
  /\ view' = [view EXCEPT !.stale = FALSE,
                          !.messages = getMessages(view.selectedChat)]
  /\ UNCHANGED <<req, key, masked, res, now, openai, completed, prompts, process, form>>
  /\ UNCHANGED storeVars
  /\ UNCHANGED hubVars

\* ------------------------------------------------------------- clock
\* time passes
Tick ==
  /\ now < MaxClock
  /\ now' = now + 1
  /\ UNCHANGED <<req, key, masked, res, openai, completed, view, prompts, process, form>>
  /\ UNCHANGED storeVars
  /\ UNCHANGED hubVars

\* ------------------------------------------------------------- Chat Orchestrator
NoData == [chatId |-> 0, role |-> "", content |-> ""]

\* a request not yet received: pc and the handler's locals
\*   completion: how the generateResponse call of this request ended
\*   status/body: what res.status(..).json(..) / res.sendStatus(..) sent
NewRequest ==
  [pc |-> "idle", user |-> 0, data |-> NoData, chat |-> undefined,
   userMessage |-> undefined, aiResponse |-> "", aiMessage |-> undefined,
   completion |-> "none", error |-> "", status |-> 0, body |-> <<>>]

\* the lookups of model and provider before createLog; model.providerId and
\* provider.baseUrl throw a TypeError on an absent record
logLookup(chat) ==
  LET model == getModel(chat.modelId)
  IN  IF model = undefined
      THEN [ok |-> FALSE,
            error |-> "TypeError: Cannot read properties of undefined (reading 'providerId')"]
      ELSE LET provider == getProvider(model.providerId)
           IN  IF provider = undefined
               THEN [ok |-> FALSE,
                     error |-> "TypeError: Cannot read properties of undefined (reading 'baseUrl')"]
               ELSE [ok |-> TRUE, modelName |-> model.name,
                     providerUrl |-> provider.baseUrl]

logEntry(r, found, received, status, errorMessage) ==
  [username |-> username(req[r].user), modelName |-> found.modelName,
   providerUrl |-> found.providerUrl, chatTitle |-> req[r].chat.name,
   messageSent |-> req[r].data.content, messageReceived |-> received,
   status |-> status, errorMessage |-> errorMessage, by |-> r]

\* the ownership test left out: any stored chat is accepted
chatNotFound_AnyOwner(chat, u) == chat = undefined

\* if (!chat || chat.userId !== req.user.id) return res.sendStatus(404)
chatNotFound(chat, u) == chat = undefined \/ chat.userId # u

\* app.post("/api/messages") up to the first store write: authentication,
\* schema parse, chat lookup and ownership
Receive(r, u, authenticated, valid, data) ==
  /\ req[r].pc = "idle"
  /\ IF ~authenticated
     THEN req' = [req EXCEPT ![r].pc = "done", ![r].status = 401]
     ELSE IF ~valid
     THEN \* insertMessageSchema.parse throws: the handler rejects
          req' = [req EXCEPT ![r].pc = "thrown", ![r].user = u,
                             ![r].error = "ZodError"]
     ELSE LET chat == getChat(data.chatId)
          IN  IF chatNotFound(chat, u)
              THEN req' = [req EXCEPT ![r].pc = "done", ![r].user = u,
                                      ![r].data = data, ![r].status = 404]
              ELSE req' = [req EXCEPT ![r].pc = "createUserMessage",
                                      ![r].user = u, ![r].data = data,
                                      ![r].chat = chat]
  /\ UNCHANGED storeVars
  /\ UNCHANGED hubVars
  /\ UNCHANGED restVars

\* const userMessage = await storage.createMessage(data)
PersistUser(r) ==
  /\ req[r].pc = "createUserMessage"
  /\ LET userMessage == createMessage(req[r].data, r)
     IN  /\ messages' = MapSet(messages, userMessage.id, userMessage)
         /\ currentIds' = [currentIds EXCEPT !.message = @ + 1]
         /\ req' = [req EXCEPT ![r].pc = "generateResponse",
                               ![r].userMessage = userMessage]
  /\ UNCHANGED <<providers, models, chats, logs>>
  /\ UNCHANGED hubVars
  /\ UNCHANGED restVars

\* generateResponse, up to the outbound call: the model and provider lookups
\* (its own and those of getOpenAIClient), which throw on an absent record.
\* Records are only ever deleted, so the lookups taken one by one end the
\* same way as taken together at the last of them.
GenerateStart(r) ==
  /\ req[r].pc = "generateResponse"
  /\ LET model == getModel(req[r].chat.modelId)
     IN  IF model = undefined
         THEN req' = [req EXCEPT ![r].pc = "catch", ![r].completion = "failed",
                                 ![r].error = "Model not found"]
         ELSE IF getProvider(model.providerId) = undefined
         THEN req' = [req EXCEPT ![r].pc = "catch", ![r].completion = "failed",
                                 ![r].error = "Provider not found"]
         ELSE req' = [req EXCEPT ![r].pc = "completions.create"]
  /\ UNCHANGED storeVars
  /\ UNCHANGED hubVars
  /\ UNCHANGED restVars

\* the outbound call settles; generateResponse returns the text or rethrows
CompletionReturns(r, outcome) ==
  /\ req[r].pc = "completions.create"
  /\ IF outcome.ok
     THEN req' = [req EXCEPT ![r].pc = "createAiMessage",
                             ![r].completion = "succeeded",
                             ![r].aiResponse = completionText(outcome.content)]
     ELSE req' = [req EXCEPT ![r].pc = "catch", ![r].completion = "failed",
                             ![r].error = outcome.content]
  /\ UNCHANGED storeVars
  /\ UNCHANGED hubVars
  /\ UNCHANGED restVars

\* the assistant message is returned to the handler without being stored
PersistAssistant_NotStored(r) ==
  /\ req[r].pc = "createAiMessage"
  /\ LET aiMessage == createMessage([chatId |-> req[r].chat.id,
                                     role |-> "assistant",
                                     content |-> req[r].aiResponse], r)
     IN  req' = [req EXCEPT ![r].pc = "createLog", ![r].aiMessage = aiMessage]
  /\ UNCHANGED storeVars
  /\ UNCHANGED hubVars
  /\ UNCHANGED restVars

\* const aiMessage = await storage.createMessage({... role: "assistant" ...})
PersistAssistant(r) ==
  /\ req[r].pc = "createAiMessage"
  /\ LET aiMessage == createMessage([chatId |-> req[r].chat.id,
                                     role |-> "assistant",
                                     content |-> req[r].aiResponse], r)
     IN  /\ messages' = MapSet(messages, aiMessage.id, aiMessage)
         /\ currentIds' = [currentIds EXCEPT !.message = @ + 1]
         /\ req' = [req EXCEPT ![r].pc = "createLog",
                               ![r].aiMessage = aiMessage]
  /\ UNCHANGED <<providers, models, chats, logs>>
  /\ UNCHANGED hubVars
  /\ UNCHANGED restVars

\* "Store interaction log" of the try block
LogSuccess(r) ==
  /\ req[r].pc = "createLog"
  /\ LET found == logLookup(req[r].chat)
     IN  IF found.ok
         THEN /\ logs' = createLog(logEntry(r, found, req[r].aiResponse,
                                            "success", ""))
              /\ req' = [req EXCEPT ![r].pc = "broadcast"]
         ELSE /\ req' = [req EXCEPT ![r].pc = "catch", ![r].error = found.error]
              /\ UNCHANGED logs
  /\ UNCHANGED <<providers, models, chats, messages, currentIds>>
  /\ UNCHANGED hubVars
  /\ UNCHANGED restVars

\* the send to a registered socket that is not open throws into the catch
BroadcastRespond_Throws(r) ==
  /\ req[r].pc = "broadcast"
  /\ IF \E client \in clients : ~isOpen(client)
     THEN /\ req' = [req EXCEPT ![r].pc = "catch",
                                ![r].error = "WebSocket is not open"]
          /\ UNCHANGED <<inbox, published>>
     ELSE LET event == [type |-> "message", chatId |-> req[r].chat.id,
                        message |-> req[r].aiMessage]
          IN  /\ inbox' = [client \in Conns |->
                             IF client \in clients
                             THEN Append(inbox[client], JSONstringify(event))
                             ELSE inbox[client]]
              /\ published' = Append(published, PublishRecord(event, NoConn))
              /\ req' = [req EXCEPT ![r].pc = "done", ![r].status = 201,
                           ![r].body = <<req[r].userMessage, req[r].aiMessage>>]
  /\ UNCHANGED <<clients, readyState, nextEdit>>
  /\ UNCHANGED storeVars
  /\ UNCHANGED restVars

\* "Broadcast to all connected clients", then res.status(201).json([..])
BroadcastRespond(r) ==
  /\ req[r].pc = "broadcast"
  /\ LET event == [type |-> "message", chatId |-> req[r].chat.id,
                   message |-> req[r].aiMessage]
     IN  /\ inbox' = send(Recipients(NoConn), JSONstringify(event))
         /\ published' = Append(published, PublishRecord(event, NoConn))
  /\ req' = [req EXCEPT ![r].pc = "done", ![r].status = 201,
                        ![r].body = <<req[r].userMessage, req[r].aiMessage>>]
  /\ UNCHANGED <<clients, readyState, nextEdit>>
  /\ UNCHANGED storeVars
  /\ UNCHANGED restVars

\* the catch block: log the error, res.status(201).json([userMessage])
CatchLog(r) ==
  /\ req[r].pc = "catch"
  /\ LET found == logLookup(req[r].chat)
     IN  IF found.ok
         THEN /\ logs' = createLog(logEntry(r, found, "No response generated",
                                            "error", req[r].error))
              /\ req' = [req EXCEPT ![r].pc = "done", ![r].status = 201,
                                    ![r].body = <<req[r].userMessage>>]
         ELSE \* the TypeError leaves the handler: nothing is sent
              /\ req' = [req EXCEPT ![r].pc = "thrown", ![r].error = found.error]
              /\ UNCHANGED logs
  /\ UNCHANGED <<providers, models, chats, messages, currentIds>>
  /\ UNCHANGED hubVars
  /\ UNCHANGED restVars

\* ------------------------------------------------------------- specification
Init ==
  /\ providers = EmptyMap
  /\ models = EmptyMap
  /\ chats = EmptyMap
  /\ messages = EmptyMap
  /\ logs = <<>>
  /\ currentIds = [provider |-> 1, model |-> 1, chat |-> 1, message |-> 1,
                   prompt |-> 1]
  /\ req = [r \in Reqs |-> NewRequest]
  /\ clients = {}
  /\ readyState = [ws \in Conns |-> "CONNECTING"]
  /\ inbox = [ws \in Conns |-> <<>>]
  /\ published = <<>>
  /\ nextEdit = 0
  /\ key = <<>>
  /\ masked = NotCalled
  /\ res = NoRequest
  /\ now = 0
  /\ openai = "src/unnamed/part_003"
  /\ completed = NotSettled
  /\ view = NoView
  /\ prompts = EmptyMap
  /\ process = "running"
  /\ form = NoForm

\* the store after the setup steps of the Basic Chat Flow test: user 1 has
\* created a provider, a model of it and a chat on that model
InitHub ==
  /\ providers = 1 :> [id |-> 1, userId |-> 1, name |-> "openrouter",
                       baseUrl |-> "https://openrouter.ai/api/v1",
                       apiKey |-> TestKey, isActive |-> TRUE]
  /\ models = 1 :> [id |-> 1, name |-> "olympiccoder", providerId |-> 1,
                    modelId |-> "olympiccoder", isDefault |-> TRUE]
  /\ chats = 1 :> [id |-> 1, userId |-> 1, name |-> "Test Chat",
                   modelId |-> 1, isDocument |-> FALSE, content |-> null]
  /\ messages = EmptyMap
  /\ logs = <<>>
  /\ currentIds = [provider |-> 2, model |-> 2, chat |-> 2, message |-> 1,
                   prompt |-> 1]
  /\ req = [r \in Reqs |-> NewRequest]
  /\ clients = {}
  /\ readyState = [ws \in Conns |-> "CONNECTING"]
  /\ inbox = [ws \in Conns |-> <<>>]
  /\ published = <<>>
  /\ nextEdit = 0
  /\ key = <<>>
  /\ masked = NotCalled
  /\ res = NoRequest
  /\ now = 0
  /\ openai = "src/unnamed/part_003"
  /\ completed = NotSettled
  /\ view = NoView
  /\ prompts = EmptyMap
  /\ process = "running"
  /\ form = NoForm

\* the empty server and any key of up to MaxKeyLen characters
InitMask ==
  /\ providers = EmptyMap
  /\ models = EmptyMap
  /\ chats = EmptyMap
  /\ messages = EmptyMap
  /\ logs = <<>>
  /\ currentIds = [provider |-> 1, model |-> 1, chat |-> 1, message |-> 1,
                   prompt |-> 1]
  /\ req = [r \in Reqs |-> NewRequest]
  /\ clients = {}
  /\ readyState = [ws \in Conns |-> "CONNECTING"]
  /\ inbox = [ws \in Conns |-> <<>>]
  /\ published = <<>>
  /\ nextEdit = 0
  /\ key \in Strings(MaxKeyLen)
  /\ masked = NotCalled
  /\ res = NoRequest
  /\ now = 0
  /\ openai = "src/unnamed/part_003"
  /\ completed = NotSettled
  /\ view = NoView
  /\ prompts = EmptyMap
  /\ process = "running"
  /\ form = NoForm

\* the empty server, built from either openai.ts
InitClient ==
  /\ providers = EmptyMap
  /\ models = EmptyMap
  /\ chats = EmptyMap
  /\ messages = EmptyMap
  /\ logs = <<>>
  /\ currentIds = [provider |-> 1, model |-> 1, chat |-> 1, message |-> 1,
                   prompt |-> 1]
  /\ req = [r \in Reqs |-> NewRequest]
  /\ clients = {}
  /\ readyState = [ws \in Conns |-> "CONNECTING"]
  /\ inbox = [ws \in Conns |-> <<>>]
  /\ published = <<>>
  /\ nextEdit = 0
  /\ key = <<>>
  /\ masked = NotCalled
  /\ res = NoRequest
  /\ now = 0
  /\ openai \in Versions
  /\ completed = NotSettled
  /\ view = NoView
  /\ prompts = EmptyMap
  /\ process = "running"
  /\ form = NoForm

\* the CRUD routes with any body: keys of several lengths, fields missing
NextCrud ==
  \/ \E u \in Users : GetProviders(u)
  \/ \E u \in Users, body \in ProviderBodies : PostProvider(u, body)
  \/ \E u \in Users, id \in 1 .. MaxProviderId, body \in ProviderBodies :
       PatchProvider(u, id, body)
  \/ \E u \in Users, id \in 1 .. MaxProviderId : DeleteProvider(u, id)
  \/ \E u \in Users, body \in ModelBodies : PostModel(u, body)
  \/ \E u \in Users, id \in 1 .. MaxModelId : DeleteModel(u, id)
  \/ \E u \in Users, body \in ChatBodies : PostChat(u, body)

\* the CRUD routes
NextStore ==
  \/ \E u \in Users, data \in ProviderInputs : PostProvider(u, data)
  \/ \E u \in Users, id \in 1 .. MaxProviderId : DeleteProvider(u, id)
  \/ \E u \in Users, data \in ModelInputs : PostModel(u, data)
  \/ \E u \in Users, id \in 1 .. MaxModelId : DeleteModel(u, id)
  \/ \E u \in Users, data \in ChatInputs : PostChat(u, data)

\* the steps of the send-message requests in R
NextReq(R) ==
  \/ \E r \in R, u \in Users, a \in BOOLEAN, v \in BOOLEAN,
        data \in MessageInputs : Receive(r, u, a, v, data)
  \/ \E r \in R : PersistUser(r)
  \/ \E r \in R : GenerateStart(r)
  \/ \E r \in R, outcome \in Outcomes : CompletionReturns(r, outcome)
  \/ \E r \in R : PersistAssistant(r)
  \/ \E r \in R : LogSuccess(r)
  \/ \E r \in R : BroadcastRespond(r)
  \/ \E r \in R : CatchLog(r)

\* the socket callbacks, the peers sending the frames of the set
NextSockets(frames) ==
  \/ \E ws \in Conns : OnConnection(ws)
  \/ \E ws \in Conns, data \in frames : OnMessage(ws, data)
  \/ \E ws \in Conns : OnError(ws)
  \/ \E ws \in Conns : OnClose(ws)

\* the socket callbacks
NextHub == NextSockets(Frames)

\* the socket callbacks and the runtime's handling of their rejections
NextRelay == NextHub \/ UnhandledRejection

\* the view, and sockets that stay connected, with peers that relay updates
\* about any chat
NextView ==
  \/ \E chatId \in 1 .. MaxChatId, ws \in Conns : SelectChat(chatId, ws)
  \/ SocketOnMessage
  \/ FetchMessages
  \/ \E ws \in Conns : OnConnection(ws)
  \/ \E ws \in Conns, data \in UpdateFrames : OnMessage(ws, data)

\* the whole server, one send-message request, peers that send JSON
Next ==
  NextStore \/ NextReq({1}) \/ NextSockets({data \in Frames : data.wellFormed})

Spec == Init /\ [][Next]_vars

\* Domain Store and Chat Orchestrator, no socket connected
SpecOrch == Init /\ [][NextStore \/ NextReq({1})]_vars

\* Broadcast Hub and Chat Orchestrator over the store of InitHub
SpecHub == InitHub /\ [][NextReq({1}) \/ NextHub]_vars

\* the hub alone, with what the runtime does when a callback rejects
SpecRelay == InitHub /\ [][NextRelay]_vars

\* SpecOrch where a handler that can take a step eventually takes one: the
\* event loop runs every continuation, and the outbound call settles
SpecOrchFair == SpecOrch /\ WF_vars(NextReq({1}))

\* two send-message requests side by side over the store of InitHub, no
\* socket connected
SpecConc == InitHub /\ [][NextReq({1, 2}) \/ Tick]_vars

\* a view on the server of InitHub while a send-message request runs
SpecView == InitHub /\ [][NextReq({1}) \/ NextView]_vars

\* every write endpoint, with any body
SpecWrite == Init /\ [][NextCrud \/ NextReq({1})]_vars

\* the Completion Client called over any store the CRUD routes build
SpecClient ==
  InitClient
  /\ [][NextStore
        \/ \E modelId \in 1 .. MaxModelId, outcome \in Outcomes :
             GenerateResponse(modelId, outcome)]_vars

\* the CRUD routes on their own, with any body
SpecCrud == Init /\ [][NextCrud]_vars

\* the routes of the records a user owns, with PATCH bodies of any field
NextOwned ==
  \/ \E u \in Users : GetPrompts(u)
  \/ \E u \in Users, data \in PromptBodies : PostPrompt(u, data)
  \/ \E u \in Users, id \in 1 .. MaxPromptId, body \in PromptPatches :
       PatchPrompt(u, id, body)
  \/ \E u \in Users, id \in 1 .. MaxPromptId : DeletePrompt(u, id)
  \/ \E u \in Users, data \in ProviderInputs : PostProvider(u, data)
  \/ \E u \in Users, id \in 1 .. MaxProviderId, body \in ProviderPatches :
       PatchProvider(u, id, body)
  \/ \E u \in Users, id \in 1 .. MaxProviderId : DeleteProvider(u, id)

SpecOwned == Init /\ [][NextOwned]_vars

\* the provider settings page of each user over the provider routes
NextForm ==
  \/ \E u \in Users, data \in ProviderBodies : PostProvider(u, data)
  \/ \E u \in Users : GetProviders(u)
  \/ \E u \in Users, id \in 1 .. MaxProviderId : DeleteProvider(u, id)
  \/ \E i \in 1 .. MaxProviderId : EditClick(i)
  \/ ChangeName("renamed")
  \/ SubmitUpdate
  \/ UpdateOnSuccess

SpecForm == Init /\ [][NextForm]_vars

\* the store, one send-message request, and the users reading the log
SpecLogs ==
  Init /\ [][NextStore \/ NextReq({1}) \/ \E u \in Users : GetLogs(u)]_vars

\* extractApiKey on its own
SpecMask == InitMask /\ [][Mask]_vars

\* ------------------------------------------------------------- properties
\* the handler of request r has ended: it answered, or an exception left it
Terminal(r) == req[r].pc \in {"done", "thrown"}

\* request r passed authentication, the schema and the chat check
Accepted(r) == req[r].chat # undefined

MessagesBy(r) == {id \in DOMAIN messages : messages[id].by = r}

\* the messages request r stored after its first one
RepliesBy(r) ==
  {id \in MessagesBy(r) : req[r].userMessage # undefined
                          /\ id # req[r].userMessage.id}

LogsBy(r, status) ==
  {i \in 1 .. Len(logs) : logs[i].by = r /\ logs[i].status = status}

\* the `message` events published for request r
EventsBy(r) ==
  {i \in 1 .. Len(published) :
     /\ published[i].json.type = "message"
     /\ published[i].json.message.by = r}

\* C1: an accepted request whose completion succeeded with text T ends with
\* exactly one assistant message of content T stored for its chat, exactly
\* one `success` log entry and exactly one `message` event published.
C1_SuccessStoresLogsPublishesOnce ==
  \A r \in Reqs :
    (Accepted(r) /\ Terminal(r) /\ req[r].completion = "succeeded") =>
      /\ Cardinality({id \in RepliesBy(r) :
                        /\ messages[id].role = "assistant"
                        /\ messages[id].chatId = req[r].chat.id
                        /\ messages[id].content = req[r].aiResponse}) = 1
      /\ Cardinality(LogsBy(r, "success")) = 1
      /\ Cardinality(EventsBy(r)) = 1

\* C2: an accepted request whose completion failed, for any reason, ends
\* with no assistant message stored for it, exactly one `error` log entry
\* that carries the failure detail, and no `message` event published.
C2_FailureLogsErrorOnce ==
  \A r \in Reqs :
    (Accepted(r) /\ Terminal(r) /\ req[r].completion = "failed") =>
      /\ RepliesBy(r) = {}
      /\ Cardinality(LogsBy(r, "error")) = 1
      /\ \A i \in LogsBy(r, "error") :
           logs[i].errorMessage # "" /\ logs[i].errorMessage = req[r].error
      /\ EventsBy(r) = {}

\* C3: once an accepted request is past its first store write, exactly one
\* message with role `user` and the request's content is stored for its
\* chat, and that is so from before the Completion Client is invoked.
C3_OneUserMessageFirst ==
  \A r \in Reqs :
    (Accepted(r) /\ req[r].pc # "createUserMessage") =>
      Cardinality({id \in MessagesBy(r) :
                     /\ messages[id].role = "user"
                     /\ messages[id].chatId = req[r].data.chatId
                     /\ messages[id].content = req[r].data.content}) = 1

\* C4: an accepted request whose completion succeeded is answered with the
\* user message and the assistant message; one whose completion failed is
\* still answered, with the user message only.
C4_ResponseByOutcome ==
  \A r \in Reqs :
    (Accepted(r) /\ Terminal(r)) =>
      /\ req[r].completion = "succeeded" =>
           /\ req[r].status = 201
           /\ req[r].body = <<req[r].userMessage, req[r].aiMessage>>
      /\ req[r].completion = "failed" =>
           /\ req[r].status = 201
           /\ req[r].body = <<req[r].userMessage>>

\* the chat a request names is stored and owned by the requester
OwnsChat(u, chatId) == chatId \in DOMAIN chats /\ chats[chatId].userId = u

\* C5: an authenticated, schema-valid request naming a chat that does not
\* exist or that another user owns is answered 404 and leaves nothing
\* behind: no message, no completion call, no log entry, no event.
C5_NotFoundLeavesNoTrace ==
  \A r \in Reqs :
    (/\ req[r].pc # "idle"
     /\ req[r].status # 401
     /\ req[r].error # "ZodError"
     /\ ~OwnsChat(req[r].user, req[r].data.chatId)) =>
      /\ req[r].pc = "done"
      /\ req[r].status = 404
      /\ req[r].body = <<>>
      /\ req[r].completion = "none"
      /\ MessagesBy(r) = {}
      /\ LogsBy(r, "success") \cup LogsBy(r, "error") = {}
      /\ EventsBy(r) = {}

\* a request for another user's existing chat has been answered 404
C5_Witness ==
  \E r \in Reqs :
    /\ req[r].status = 404
    /\ req[r].data.chatId \in DOMAIN chats
    /\ chats[req[r].data.chatId].userId # req[r].user

\* the sockets whose peer has been sent the payload of publish i
ReceiversOf(i) ==
  {ws \in Conns :
     \E k \in 1 .. Len(inbox[ws]) : JSONparse(inbox[ws][k]) = published[i].json}

\* the places of the payload of publish i in what ws was sent
PlacesOf(i, ws) ==
  {k \in 1 .. Len(inbox[ws]) : JSONparse(inbox[ws][k]) = published[i].json}

\* C6: a publish made while every registered socket is open reaches, with
\* the payload unchanged, exactly the registered sockets other than the
\* excluded one: N-1 of N for a relayed document_update (never its sender),
\* all N for the `message` event of a send-message request.
C6_PublishReachesAllButExcluded ==
  \A i \in 1 .. Len(published) :
    LET p == published[i]
        N == Cardinality(p.registered)
    IN  p.open = p.registered =>
          /\ ReceiversOf(i) = p.registered \ {p.exclude}
          /\ p.json.type = "document_update" =>
               /\ p.exclude \in p.registered
               /\ p.exclude \notin ReceiversOf(i)
               /\ Cardinality(ReceiversOf(i)) = N - 1
          /\ p.json.type = "message" =>
               /\ p.exclude = NoConn
               /\ Cardinality(ReceiversOf(i)) = N

\* with every socket registered and open, a document_update was relayed and
\* a `message` event was published
C6_Witness ==
  \E i, j \in 1 .. Len(published) :
    /\ published[i].json.type = "document_update"
    /\ published[i].registered = Conns /\ published[i].open = Conns
    /\ Cardinality(ReceiversOf(i)) = Cardinality(Conns) - 1
    /\ published[j].json.type = "message"
    /\ published[j].registered = Conns /\ published[j].open = Conns
    /\ ReceiversOf(j) = Conns

C8_PublisherOrderKept ==
  \A i, j \in 1 .. Len(published) :
    (/\ i < j
     /\ published[i].json.type = "document_update"
     /\ published[j].json.type = "document_update"
     /\ published[i].exclude = published[j].exclude) =>
      \A ws \in Conns :
        \A a \in PlacesOf(i, ws), b \in PlacesOf(j, ws) : a < b

\* a socket was sent two document_updates of the same sender
C8_Witness ==
  \E i, j \in 1 .. Len(published), ws \in Conns :
    /\ i < j
    /\ published[i].json.type = "document_update"
    /\ published[j].json.type = "document_update"
    /\ published[i].exclude = published[j].exclude
    /\ PlacesOf(i, ws) # {} /\ PlacesOf(j, ws) # {}

\* C9: an event reaches a socket only in its publish call: every event a
\* socket was sent was published while that socket was registered and open,
\* it was sent once, and what a socket was sent never holds more than the
\* events published since it registered.
C9_NoBacklog ==
  \A ws \in Conns :
    /\ \A k \in 1 .. Len(inbox[ws]) :
         \E i \in 1 .. Len(published) :
           /\ JSONparse(inbox[ws][k]) = published[i].json
           /\ ws \in published[i].open
    /\ \A i \in 1 .. Len(published) :
         /\ Cardinality(PlacesOf(i, ws)) <= 1
         /\ ws \notin published[i].open => PlacesOf(i, ws) = {}

\* a socket that registered after one publish and one that was registered
\* but not open during a publish: neither was sent that event, and the
\* first was sent a later one
C9_Witness ==
  \E ws, other \in Conns, i, j, h \in 1 .. Len(published) :
    /\ i < j
    /\ ws \notin published[i].registered /\ PlacesOf(i, ws) = {}
    /\ ws \in published[j].open /\ PlacesOf(j, ws) # {}
    /\ other \in published[h].registered \ published[h].open
    /\ PlacesOf(h, other) = {}
    /\ readyState[ws] = "OPEN"

\* C10: a request that stored its `success` log entry is answered 201 with
\* both messages, with exactly that one log entry and its two messages
\* stored, whatever the sockets' state at the broadcast.
C10_BroadcastNeverSurfaces ==
  \A r \in Reqs :
    (Terminal(r) /\ LogsBy(r, "success") # {}) =>
      /\ req[r].pc = "done"
      /\ req[r].status = 201
      /\ req[r].body = <<req[r].userMessage, req[r].aiMessage>>
      /\ Cardinality(LogsBy(r, "success")) = 1
      /\ LogsBy(r, "error") = {}
      /\ MessagesBy(r) = {req[r].userMessage.id, req[r].aiMessage.id}
      /\ Cardinality(EventsBy(r)) = 1

\* a request was answered after a broadcast during which a registered socket
\* was not open
C10_Witness ==
  \E r \in Reqs :
    /\ req[r].pc = "done" /\ req[r].status = 201
    /\ \E i \in EventsBy(r) :
         /\ published[i].registered # published[i].open
         /\ published[i].open # {}

ProviderRepresentations ==
  IF res.route \notin {"GET /api/providers", "POST /api/providers",
                       "PATCH /api/providers/:id"}
  THEN {}
  ELSE IF res.kind = "object" THEN {res.json}
  ELSE IF res.kind = "array" THEN {res.json[i] : i \in 1 .. Len(res.json)}
  ELSE {}

\* C12: every provider record sent to a client (list, create response,
\* update response) carries its key masked: the first and last part with
\* mask characters in the middle, never the secret as stored.
C12_OutboundKeyMasked ==
  \A shown \in ProviderRepresentations :
    LET secret == providers[shown.id].apiKey
        L == Len(secret)
    IN  /\ shown.apiKey # secret
        /\ Len(shown.apiKey) = L
        /\ \E i \in 1 .. L : shown.apiKey[i] = "*"
        /\ \A i \in 1 .. L : shown.apiKey[i] \in {"*", secret[i]}

\* the log entries written for request r
LogsOf(r) == {i \in 1 .. Len(logs) : logs[i].by = r}

\* C13: the interaction log is append-only and holds one record per
\* completion attempt: no step changes or removes an entry, a request whose
\* completion call settled (either way) ends with exactly one entry, and
\* there are no other entries.
C13_LogOnePerAttempt ==
  [][/\ Len(logs') >= Len(logs)
     /\ \A i \in 1 .. Len(logs) : logs'[i] = logs[i]
     /\ \A r \in Reqs :
          /\ (Terminal(r)' /\ req'[r].completion # "none") =>
               Cardinality(LogsOf(r))' = 1
          /\ req'[r].completion = "none" => LogsOf(r)' = {}
     /\ Len(logs') <= Cardinality({r \in Reqs : req'[r].completion # "none"})]_vars

\* the place of message id in the message list of its chat
PlaceOf(id) ==
  LET list == getMessages(messages[id].chatId)
  IN  CHOOSE k \in 1 .. Len(list) : list[k].id = id

\* C14: in the message list of a chat, as getMessages returns it, every
\* assistant message stands behind the user message of the request that
\* triggered it, however concurrent requests on the chat interleave.
C14_ReplyAfterItsUserMessage ==
  \A r \in Reqs :
    \A id \in RepliesBy(r) :
      /\ messages[id].chatId = req[r].userMessage.chatId
      /\ PlaceOf(req[r].userMessage.id) < PlaceOf(id)

\* two requests on one chat whose messages were stored interleaved, at
\* different times: the reply of the first stands behind both messages of
\* the second
C14_Witness ==
  \E r, q \in Reqs :
    /\ r # q
    /\ RepliesBy(r) # {} /\ RepliesBy(q) # {}
    /\ req[r].userMessage.chatId = req[q].userMessage.chatId
    /\ req[r].userMessage.createdAt < req[q].userMessage.createdAt
    /\ \A a \in RepliesBy(r), b \in RepliesBy(q) :
         /\ PlaceOf(req[q].userMessage.id) < PlaceOf(b)
         /\ PlaceOf(b) < PlaceOf(a)
         /\ messages[b].createdAt < messages[a].createdAt

\* the terminal states of an exchange
Notified(r) == req[r].pc = "done" /\ EventsBy(r) # {}

Logged(r) == req[r].pc = "done" /\ LogsBy(r, "error") # {}

\* C15: an accepted request whose completion call has resolved or rejected
\* eventually reaches Notified or Logged with a response sent to the
\* caller, whatever the store holds at that moment.
C15_SettledReachesTerminal ==
  \A r \in Reqs :
    (Accepted(r) /\ req[r].completion # "none") ~>
      ((Notified(r) \/ Logged(r)) /\ req[r].status = 201)

\* C16: the Completion Client rejects with an error carrying a message, and
\* returns no text, when the model is missing, the provider is missing or
\* the provider call fails.
C16_ClientFailsWithMessage ==
  (/\ completed.settled # "none"
   /\ ~(completed.modelFound /\ completed.providerFound /\ completed.callOk)) =>
    /\ completed.settled = "rejected"
    /\ completed.message # ""
    /\ completed.text = ""

\* C17: a request whose payload fails the schema constraints persists
\* nothing: the step that handles it leaves the Domain Store as it was, at
\* every write endpoint (create and update provider, create model, create
\* chat, send message).
C17_InvalidPayloadNotPersisted ==
  [][/\ \A u \in Users, body \in ProviderBodies :
          (PostProvider(u, body) /\ ~insertProviderSchema(body)) =>
            UNCHANGED storeVars
     /\ \A u \in Users, id \in 1 .. MaxProviderId, body \in ProviderBodies :
          (PatchProvider(u, id, body) /\ ~partialProviderSchema(body)) =>
            UNCHANGED storeVars
     /\ \A u \in Users, body \in ModelBodies :
          (PostModel(u, body) /\ ~insertModelSchema(body)) =>
            UNCHANGED storeVars
     /\ \A u \in Users, body \in ChatBodies :
          (PostChat(u, body) /\ ~insertChatSchema(body)) =>
            UNCHANGED storeVars
     /\ \A r \in Reqs, u \in Users, data \in MessageInputs :
          Receive(r, u, TRUE, FALSE, data) => UNCHANGED storeVars]_vars

\* what the send-message request r was answered with: the route sends an
\* array of messages
ResponseOf(r) == jsonArray("POST /api/messages", req[r].status, req[r].body)

\* response.json() followed by `?.id`: an array has no `id`
idOf(response) == IF response.kind = "object" THEN response.json.id ELSE undefined.id

\* C18: each create endpoint of the Basic Chat Flow test answers 201 with
\* the created record and its assigned id; the body of a successful
\* send-message response has an `id`, the id of the stored user message.
C18_CreatedRecordCarriesId ==
  /\ res.status = 201 =>
       /\ res.route = "POST /api/providers" =>
            idOf(res) \in 1 .. currentIds.provider - 1
       /\ res.route = "POST /api/models" =>
            idOf(res) \in 1 .. currentIds.model - 1
       /\ res.route = "POST /api/chats" =>
            idOf(res) \in 1 .. currentIds.chat - 1
  /\ \A r \in Reqs :
       (req[r].pc = "done" /\ req[r].status = 201) =>
         /\ req[r].userMessage.id \in DOMAIN messages
         /\ idOf(ResponseOf(r)) = req[r].userMessage.id

\* the event the view handles next
NextEvent == JSONparse(inbox[view.socket][view.read + 1])

\* C19: when the view displays chat C and handles a `message` event whose
\* chatId is C, it invalidates its message list for C, so that the list is
\* fetched again and shows the new assistant message.
C19_MessageEventRefreshes ==
  [][(/\ view.socket # NoConn
      /\ view'.read = view.read + 1
      /\ NextEvent.type = "message"
      /\ NextEvent.chatId = view.selectedChat) => view'.stale]_vars

\* C20: the view filters events by chatId: handling an event about another
\* chat than the displayed one invalidates nothing and changes nothing in
\* the view, and an event invalidates the message list only if it is about
\* the displayed chat.
C20_OtherChatEventsIgnored ==
  [][(view.socket # NoConn /\ view'.read = view.read + 1) =>
       /\ NextEvent.chatId # view.selectedChat =>
            view' = [view EXCEPT !.read = @ + 1]
       /\ (view'.stale /\ ~view.stale) =>
            NextEvent.chatId = view.selectedChat]_vars

\* the view has fetched its list, then handled an event about another chat
\* and stayed fresh, and an event about its own chat after which the list
\* is to be fetched again
C20_Witness ==
  /\ view.stale
  /\ \E j, k \in 1 .. view.read :
       /\ j < k
       /\ JSONparse(inbox[view.socket][j]).chatId # view.selectedChat
       /\ JSONparse(inbox[view.socket][k]).chatId = view.selectedChat
       /\ JSONparse(inbox[view.socket][k]).type = "document_update"
       /\ k = view.read
  /\ view.messages # <<>>

\* C21: a prompt marked shared is listed for every user and one that is not
\* only for its owner; a PATCH or DELETE by a user changes no prompt that
\* another user owns, and a request by a user for another user's prompt is
\* answered 404.
C21_PromptsListedAndOwned ==
  [][/\ \A u \in Users :
          GetPrompts(u) =>
            {res'.json[i] : i \in 1 .. Len(res'.json)}
              = {prompts[k] : k \in {id \in DOMAIN prompts :
                   prompts[id].userId = u \/ prompts[id].isShared}}
     /\ \A u \in Users, id \in 1 .. MaxPromptId :
          (\/ \E body \in PromptPatches : PatchPrompt(u, id, body)
           \/ DeletePrompt(u, id))
            => /\ \A k \in DOMAIN prompts :
                    prompts[k].userId # u
                      => k \in DOMAIN prompts' /\ prompts'[k] = prompts[k]
               /\ (id \in DOMAIN prompts /\ prompts[id].userId # u)
                    => res'.status = 404]_vars

\* C26: a PATCH of a provider or of a prompt changes neither the id nor the
\* owning user of any stored record.
C26_PatchKeepsIdAndOwner ==
  [][/\ \A u \in Users, id \in 1 .. MaxProviderId, body \in ProviderPatches :
          PatchProvider(u, id, body) =>
            \A k \in DOMAIN providers :
              /\ k \in DOMAIN providers'
              /\ providers'[k].id = providers[k].id
              /\ providers'[k].userId = providers[k].userId
     /\ \A u \in Users, id \in 1 .. MaxPromptId, body \in PromptPatches :
          PatchPrompt(u, id, body) =>
            \A k \in DOMAIN prompts :
              /\ k \in DOMAIN prompts'
              /\ prompts'[k].id = prompts[k].id
              /\ prompts'[k].userId = prompts[k].userId]_vars

\* the message list GET /api/chats/:chatId/messages answers with holds m
Listed(m) ==
  LET list == getMessages(m.chatId)
  IN  \E i \in 1 .. Len(list) : list[i] = m

\* C22: the steps of one send-message request are taken in the order
\* validate, store the user message, complete, store the assistant message,
\* publish; a `message` event is published, and is in a socket's inbox, only
\* when the assistant message it carries is in the stored list of its chat.
C22_PublishAfterAssistantStored ==
  /\ \A r \in Reqs :
       /\ req[r].userMessage # undefined => Accepted(r)
       /\ req[r].completion # "none" =>
            /\ req[r].userMessage # undefined
            /\ Listed(req[r].userMessage)
       /\ req[r].aiMessage # undefined =>
            /\ req[r].completion = "succeeded"
            /\ req[r].userMessage.id < req[r].aiMessage.id
       /\ EventsBy(r) # {} =>
            /\ req[r].aiMessage # undefined
            /\ \A i \in EventsBy(r) :
                 published[i].json.message = req[r].aiMessage
  /\ \A i \in 1 .. Len(published) :
       published[i].json.type = "message" => Listed(published[i].json.message)
  /\ \A ws \in Conns : \A i \in 1 .. Len(inbox[ws]) :
       JSONparse(inbox[ws][i]).type = "message" =>
         Listed(JSONparse(inbox[ws][i]).message)

\* a socket has been sent the `message` event of a request that stored both
\* messages and was answered 201
C22_Witness ==
  \E ws \in Conns, r \in Reqs :
    /\ req[r].pc = "done" /\ req[r].status = 201
    /\ \E i \in 1 .. Len(inbox[ws]) :
         /\ JSONparse(inbox[ws][i]).type = "message"
         /\ JSONparse(inbox[ws][i]).message = req[r].aiMessage
    /\ Listed(req[r].userMessage) /\ Listed(req[r].aiMessage)

\* the frame is a well-formed document_update
isDocumentUpdate(data) ==
  data.wellFormed /\ JSONparse(data).type = "document_update"

\* C23: handling an inbound payload that is not a well-formed document_update
\* (another type, or text that does not parse), and what the runtime then
\* does with the handler's rejection, sends nothing to any socket and leaves
\* the registered sockets, their states (so that later updates are relayed)
\* and the store unchanged.
C23_OtherPayloadHarmless ==
  [][(\/ \E ws \in Conns, data \in Frames :
           ~isDocumentUpdate(data) /\ OnMessage(ws, data)
      \/ UnhandledRejection)
       => /\ inbox' = inbox
          /\ clients' = clients
          /\ readyState' = readyState
          /\ UNCHANGED storeVars]_vars

\* C24: after a document_update about a stored chat is handled, the content
\* of that chat in the store is the edit.
C24_DocumentEditStored ==
  [][\A ws \in Conns, data \in Frames :
       (/\ isDocumentUpdate(data)
        /\ JSONparse(data).chatId \in DOMAIN chats
        /\ OnMessage(ws, data))
         => chats'[JSONparse(data).chatId].content = JSONparse(data).edit]_vars

\* C25: when a send-message request reaches the outbound call of the
\* Completion Client, the provider of the model it calls with is owned by the
\* user who sent the message.
C25_CompletionWithSendersProvider ==
  [][\A r \in Reqs :
       (req[r].pc = "generateResponse" /\ req'[r].pc = "completions.create")
         => getProvider(getModel(req[r].chat.modelId).providerId).userId
              = req[r].user]_vars

\* C28: every stored model references a stored provider and every stored chat
\* references a stored model.
C28_ReferencesResolve ==
  /\ \A id \in DOMAIN models : models[id].providerId \in DOMAIN providers
  /\ \A id \in DOMAIN chats : chats[id].modelId \in DOMAIN models

\* C29: GET /api/logs by a user is answered with entries of that user's own
\* send-message requests only.
C29_LogsOfRequesterOnly ==
  [][\A u \in Users :
       GetLogs(u) =>
         \A i \in 1 .. Len(res'.json) : res'.json[i].username = username(u)]_vars

\* C30: a POST /api/providers that stores a provider is answered 201 with the
\* record, and every GET /api/providers is answered 200 with the list.
C30_MaskingNeverFailsRequest ==
  [][/\ \A u \in Users, data \in ProviderBodies :
          (PostProvider(u, data) /\ providers' # providers)
            => res'.status = 201 /\ res'.kind = "object"
     /\ \A u \in Users :
          GetProviders(u) => res'.status = 200 /\ res'.kind = "array"]_vars

\* C27: submitting the edit dialog of a provider with the API Key field as
\* the dialog showed it leaves the apiKey of the stored provider unchanged.
C27_EditKeepsStoredKey ==
  [][(/\ SubmitUpdate
      /\ form.apiKey = form.selectedProvider.apiKey
      /\ form.selectedProvider.id \in DOMAIN providers)
       => /\ form.selectedProvider.id \in DOMAIN providers'
          /\ providers'[form.selectedProvider.id].apiKey
               = providers[form.selectedProvider.id].apiKey]_vars

============================================================================
